---- MODULE Spec2Model ----
(***************************************************************************)
(* A model of the WAPPS host (nathsou/wapps): the Frame Hand-off Buffer    *)
(* (host_interface.rs), the Memory Bridge and the dispatch facade          *)
(* (runtime.rs) and the container loader (loader.rs).                      *)
(*                                                                         *)
(* Integer widths.  The bridge computes in i32 and in usize.  TLC's        *)
(* integers cannot hold 2^64, so the two widths are scaled: an i32 is an   *)
(* IntBits-bit two's complement integer and a usize is twice as wide.      *)
(* Wrapping, sign extension and the overflow checks of a debug build are   *)
(* modelled at those widths.                                               *)
(***************************************************************************)
EXTENDS Integers, Sequences, FiniteSets, TLC

VARIABLES
    overflow_checks,  \* build profile: TRUE = debug (overflow panics), FALSE = release (wraps)
    mem,              \* the guest's exported linear memory, a sequence of bytes
    stores,           \* number of guest stores so far (bounded)
    host,             \* the HostInterface record (Frame Hand-off Buffer)
    pc,               \* "host" | "guest" | "panicked"
    entry,            \* the entry point the guest is running, "" when pc # "guest"
    op,               \* the call_* operation in progress, "" when pc # "guest"
    resolved,         \* the optional entry points resolved at instantiation
    last,             \* the last operation and its outcome
    shadow,           \* history: the frame the latest update_frame call asked for, since the last take
    hist,             \* history: the set_frame calls since the last take (count, latest arguments)
    valid_seen,       \* history: an in-bounds update_frame call has been made
    mutex,            \* holder of the Mutex<HostInterface>: "free" | "producer" | "consumer"
    poisoned,         \* the mutex is poisoned: a holder panicked
    ppc,              \* producer thread: where the guest's update_frame call stands
    cpc,              \* consumer thread: where with_frame_data stands
    p_req,            \* producer: the arguments of the set_frame call in progress
    c_obs,            \* consumer: what the closure has been handed and has read
    wapp_in,          \* loader: the record a container file was written from
    file_bytes,       \* loader: the bytes of the file
    loaded,           \* loader: what load_wapp returned, <<"pending">> before the call
    module,           \* driver: the guest module handed to WasmRuntime::new
    dpc,              \* driver: where main and run_app stand
    run_result,       \* driver: what run_app returned
    exit_status,      \* driver: how the process ended
    batch,            \* driver: the events of graphics.poll_events() the `for` has yet to visit
    iter,             \* history: what the current iteration of 'main_loop has done
    ticks,            \* driver: how long the guest call in progress has run, 0 when none
    wasi,             \* what the WASI context of the store grants the guest
    linker            \* the <<module, name>> pairs the linker defines for the guest's imports

sandboxVars == <<overflow_checks, mem, stores, pc, entry, op, resolved, last, shadow, hist,
                 valid_seen>>
hostVars == <<sandboxVars, host>>
threadVars == <<mutex, poisoned, ppc, cpc, p_req, c_obs>>
loaderVars == <<wapp_in, file_bytes, loaded>>
driverVars == <<module, dpc, run_result, exit_status, batch, iter, ticks, wasi, linker>>
startupVars == <<loaderVars, driverVars>>

vars == <<hostVars, threadVars, startupVars>>

----------------------------------------------------------------------------
(* Bounds *)

IntBits == 5      \* scaled width of i32
MemLen == 8       \* byte length of the guest memory
MaxStores == 1    \* guest stores per run
MaxTicks == 2     \* units of execution a guest call is followed for

----------------------------------------------------------------------------
(* Fixed-width arithmetic *)

RECURSIVE Pow2(_)
Pow2(n) == IF n = 0 THEN 1 ELSE 2 * Pow2(n - 1)

UsizeBits == 2 * IntBits

I32Min == 0 - Pow2(IntBits - 1)
I32Max == Pow2(IntBits - 1) - 1
InI32(x) == I32Min <= x /\ x <= I32Max

\* two's complement wrap of a mathematical integer to i32
WrapI32(x) ==
    LET m == x % Pow2(IntBits)
    IN  IF m >= Pow2(IntBits - 1) THEN m - Pow2(IntBits) ELSE m

\* `x as usize` for an i32 x: sign extension
AsUsize(x) == x % Pow2(UsizeBits)

WrapUsize(x) == x % Pow2(UsizeBits)

----------------------------------------------------------------------------
(* Frame Hand-off Buffer: host_interface.rs *)

\* frame_capacity is frame_buffer.capacity()
HostInterfaceNew ==
    [frame_width |-> 0, frame_height |-> 0, frame_buffer |-> <<>>,
     frame_capacity |-> 0, frame_len |-> 0, frame_dirty |-> FALSE]

Max(a, b) == IF a >= b THEN a ELSE b

\* the smallest capacity a Vec<u8> allocates
MinNonZeroCap == 8

\* the capacity a Vec<u8> grows to when `required` does not fit: twice the
\* old capacity or what is required, the larger
GrowAmortized(cap, required) == Max(Max(2 * cap, required), MinNonZeroCap)

\* Vec::reserve(additional) on a vector of length len: nothing when the spare
\* capacity suffices
VecReserve(len, cap, additional) ==
    IF cap - len >= additional THEN cap ELSE GrowAmortized(cap, len + additional)

\* Vec::resize(new_len, 0): truncate, or extend with zeros
VecResize(buf, n) ==
    IF n <= Len(buf) THEN SubSeq(buf, 1, n)
    ELSE buf \o [i \in 1..(n - Len(buf)) |-> 0]

\* copy_from_slice: the destination has the source's length
CopyFromSlice(dst, src) == [i \in 1..Len(dst) |-> IF i <= Len(src) THEN src[i] ELSE dst[i]]

\* set_frame with the reused buffer never shortened: a stale tail stays valid
set_frame_keeps_tail(h, width, height, pixels) ==
    LET old == h.frame_buffer
        buf == IF Len(old) > Len(pixels)
               THEN pixels \o SubSeq(old, Len(pixels) + 1, Len(old))
               ELSE pixels
    IN  [frame_width |-> width,
         frame_height |-> height,
         frame_len |-> Len(buf),
         frame_buffer |-> buf,
         frame_capacity |-> Max(h.frame_capacity, Len(buf)),
         frame_dirty |-> TRUE]

\* set_frame storing a fresh copy of the pixels: pixels.to_vec()
set_frame_reallocates(h, width, height, pixels) ==
    [frame_width |-> width,
     frame_height |-> height,
     frame_len |-> Len(pixels),
     frame_buffer |-> pixels,
     frame_capacity |-> Len(pixels),
     frame_dirty |-> TRUE]

\* the statements of set_frame, in order
SetFrameSteps == <<"width", "height", "len", "reserve", "resize", "copy", "dirty">>

\* one statement of set_frame
SetFrameStep(h, step, width, height, pixels) ==
    CASE step = "width"  -> [h EXCEPT !.frame_width = width]
      [] step = "height" -> [h EXCEPT !.frame_height = height]
      [] step = "len"    -> [h EXCEPT !.frame_len = Len(pixels)]
      [] step = "reserve" ->
            IF h.frame_capacity < Len(pixels)
            THEN [h EXCEPT !.frame_capacity =
                     VecReserve(Len(h.frame_buffer), h.frame_capacity,
                                Len(pixels) - h.frame_capacity)]
            ELSE h
      [] step = "resize" ->
            [h EXCEPT !.frame_buffer = VecResize(h.frame_buffer, Len(pixels)),
                      !.frame_capacity =
                         IF Len(pixels) > Len(h.frame_buffer)
                         THEN VecReserve(Len(h.frame_buffer), h.frame_capacity,
                                         Len(pixels) - Len(h.frame_buffer))
                         ELSE h.frame_capacity]
      [] step = "copy"   -> [h EXCEPT !.frame_buffer = CopyFromSlice(h.frame_buffer, pixels)]
      [] step = "dirty"  -> [h EXCEPT !.frame_dirty = TRUE]

RECURSIVE SetFrameFrom(_, _, _, _, _)
SetFrameFrom(h, i, width, height, pixels) ==
    IF i > Len(SetFrameSteps) THEN h
    ELSE SetFrameFrom(SetFrameStep(h, SetFrameSteps[i], width, height, pixels),
                      i + 1, width, height, pixels)

set_frame(h, width, height, pixels) == SetFrameFrom(h, 1, width, height, pixels)

\* borrow_frame that leaves the dirty flag set
borrow_frame_keeps_dirty(h) ==
    IF h.frame_dirty
    THEN [res |-> <<"some", h.frame_width, h.frame_height,
                    SubSeq(h.frame_buffer, 1, h.frame_len)>>,
          host |-> h]
    ELSE [res |-> <<"none">>, host |-> h]

\* borrow_frame: the returned option and the interface afterwards
borrow_frame(h) ==
    IF h.frame_dirty
    THEN [res |-> <<"some", h.frame_width, h.frame_height,
                    SubSeq(h.frame_buffer, 1, h.frame_len)>>,
          host |-> [h EXCEPT !.frame_dirty = FALSE]]
    ELSE [res |-> <<"none">>, host |-> h]

----------------------------------------------------------------------------
(* Memory Bridge: the update_frame host import, runtime.rs *)

\* what `width * height * 4`, the casts and `ptr + len` evaluate to
BridgeArith(width, height, pixels_ptr) ==
    LET wh   == width * height
        prod == WrapI32(wh) * 4
        len  == AsUsize(WrapI32(prod))
        ptr  == AsUsize(pixels_ptr)
        sum  == ptr + len
    IN  [ptr |-> ptr, len |-> len, end |-> WrapUsize(sum),
         overflow |-> ~InI32(wh) \/ ~InI32(prod) \/ sum >= Pow2(UsizeBits)]

\* the bridge with the bounds check `ptr + len >= data.len()`
bridge_slice_rejects_end(data, width, height, pixels_ptr) ==
    LET a == BridgeArith(width, height, pixels_ptr)
    IN  IF overflow_checks /\ a.overflow
        THEN [outcome |-> "panic", pixels |-> <<>>]
        ELSE IF a.end >= Len(data)
        THEN [outcome |-> "dropped", pixels |-> <<>>]
        ELSE IF a.ptr > a.end
        THEN [outcome |-> "panic", pixels |-> <<>>]
        ELSE [outcome |-> "stored", pixels |-> SubSeq(data, a.ptr + 1, a.end)]

\* the bridge up to the slice `&data[ptr..ptr + len]`: the outcome of the call
\* ("panic", "dropped" or "stored") and the slice handed to set_frame
bridge_slice(data, width, height, pixels_ptr) ==
    LET a == BridgeArith(width, height, pixels_ptr)
    IN  IF overflow_checks /\ a.overflow
        THEN [outcome |-> "panic", pixels |-> <<>>]       \* arithmetic overflow, debug build
        ELSE IF a.end > Len(data)
        THEN [outcome |-> "dropped", pixels |-> <<>>]
        ELSE IF a.ptr > a.end
        THEN [outcome |-> "panic", pixels |-> <<>>]       \* slice index starts after its end
        ELSE [outcome |-> "stored", pixels |-> SubSeq(data, a.ptr + 1, a.end)]

\* one whole call, the lock uncontended: the outcome, the slice and the interface afterwards
update_frame(data, h, width, height, pixels_ptr) ==
    LET b == bridge_slice(data, width, height, pixels_ptr)
    IN  [outcome |-> b.outcome, pixels |-> b.pixels,
         host |-> IF b.outcome = "stored" THEN set_frame(h, width, height, b.pixels) ELSE h]

----------------------------------------------------------------------------
(* The sandbox and its dispatch facade: runtime.rs *)

OptionalEntryPoints ==
    {"on_resize", "on_pointer_move", "on_pointer_down", "on_pointer_up",
     "on_key_down", "on_key_up"}

EntryPoints == {"update"} \cup OptionalEntryPoints

\* the export WasmRuntime::new looks up for each cached handle
ExportOf ==
    [update_fn          |-> "update",
     on_resize_fn       |-> "on_resize",
     on_pointer_move_fn |-> "on_pointer_move",
     on_pointer_down_fn |-> "on_pointer_down",
     on_pointer_up_fn   |-> "on_pointer_up",
     on_key_down_fn     |-> "on_key_down",
     on_key_up_fn       |-> "on_key_up"]

\* the cached handle each operation calls: call_update, call_on_resize, ...
FieldOf ==
    [update          |-> "update_fn",
     on_resize       |-> "on_resize_fn",
     on_pointer_move |-> "on_pointer_move_fn",
     on_pointer_down |-> "on_pointer_down_fn",
     on_pointer_up   |-> "on_pointer_up_fn",
     on_key_down     |-> "on_key_down_fn",
     on_key_up       |-> "on_key_up_fn"]

\* the operations' contexts with one name pasted from the operation above
ContextOf_pasted ==
    [update          |-> "update",
     on_resize       |-> "on_resize",
     on_pointer_move |-> "on_pointer_move",
     on_pointer_down |-> "on_pointer_down",
     on_pointer_up   |-> "on_pointer_down",
     on_key_down     |-> "on_pointer_up",
     on_key_up       |-> "on_key_down"]

\* the entry point each operation names in the context of its error:
\* "Error calling guest '...' function"
ContextOf ==
    [update          |-> "update",
     on_resize       |-> "on_resize",
     on_pointer_move |-> "on_pointer_move",
     on_pointer_down |-> "on_pointer_down",
     on_pointer_up   |-> "on_pointer_up",
     on_key_down     |-> "on_key_down",
     on_key_up       |-> "on_key_up"]

\* the export behind the handle an operation calls
Callee(o) == ExportOf[FieldOf[o]]

\* the guests considered: which optional entry points they export
Guests == {{}, {"on_resize", "on_key_down"}}

\* arguments a guest passes to update_frame, and the addresses it stores to
Dims == {-1, 1, 2, Pow2(IntBits - 2)}
Ptrs == {-4, 0, MemLen - 4, MemLen}
StoreAddrs == {0, MemLen - 1}

None == <<"none">>
Some(w, h, bytes) == <<"some", w, h, bytes>>

\* the request as the contract reads it, in unbounded integers
FrameBytes(w, h) == w * h * 4
OutOfBounds(data, w, h, p) == p + FrameBytes(w, h) > Len(data)
\* an in-bounds request that names a range of guest memory
ValidRequest(data, w, h, p) ==
    p >= 0 /\ FrameBytes(w, h) >= 0 /\ ~OutOfBounds(data, w, h, p)

NoSets == [n |-> 0, latest |-> None, shrunk |-> FALSE]

\* the history after set_frame(width, height, pixels)
Record(hs, width, height, pixels) ==
    [n |-> IF hs.n < 2 THEN hs.n + 1 ELSE 2,
     latest |-> Some(width, height, pixels),
     shrunk |-> hs.n > 0 /\ Len(hs.latest[4]) > Len(pixels)]

\* the sandbox after WasmRuntime::new, the buffer after HostInterface::new
InitSandbox ==
    /\ overflow_checks \in BOOLEAN
    /\ mem = [i \in 1..MemLen |-> i - 1]
    /\ stores = 0
    /\ host = HostInterfaceNew
    /\ pc = "host"
    /\ entry = ""
    /\ op = ""
    /\ resolved \in Guests
    /\ last = [op |-> "new"]
    /\ shadow = None
    /\ hist = NoSets
    /\ valid_seen = FALSE

\* no second thread
ThreadsIdle ==
    /\ mutex = "free"
    /\ poisoned = FALSE
    /\ ppc = "idle"
    /\ cpc = "idle"
    /\ p_req = None
    /\ c_obs = None

\* the container has been loaded
LoaderIdle ==
    /\ wapp_in = None
    /\ file_bytes = <<>>
    /\ loaded = <<"pending">>

\* WasiCtxBuilder::new(): what a fresh builder grants
WasiCtxBuilder_new == {"clock", "random"}

inherit_stdout(b) == b \cup {"stdout"}

inherit_stderr(b) == b \cup {"stderr"}

\* StoreState::new with the environment inherited as well
StoreState_new_inherit_env == inherit_stderr(inherit_stdout(WasiCtxBuilder_new)) \cup {"env"}

\* StoreState::new: the grants of the WASI context it builds
StoreState_new == inherit_stderr(inherit_stdout(WasiCtxBuilder_new))

\* preview1::add_to_linker_sync: functions of the system interface
Preview1 ==
    {<<"wasi_snapshot_preview1", f>> :
        f \in {"fd_write", "clock_time_get", "random_get", "path_open", "sock_accept",
               "environ_get"}}

\* the linker of WasmRuntime::new: the system interface and wapps::update_frame
LinkerDefinitions == Preview1 \cup {<<"wapps", "update_frame">>}

\* no batch of events has been polled in the current iteration
NoBatch == [polled |-> FALSE, events |-> <<>>]

NoIteration == [delivered |-> <<>>, dispatched |-> <<>>, updates |-> 0, takes |-> 0]

\* the runtime has been constructed by a caller that is not run_app
DriverIdle ==
    /\ module = None
    /\ dpc = "idle"
    /\ run_result = None
    /\ exit_status = None
    /\ batch = NoBatch
    /\ iter = NoIteration
    /\ ticks = 0
    /\ wasi = StoreState_new
    /\ linker = LinkerDefinitions

Init == InitSandbox /\ ThreadsIdle /\ LoaderIdle /\ DriverIdle

\* call_update: `update` is always resolved once construction has succeeded
CallUpdate ==
    /\ pc = "host"
    /\ pc' = "guest"
    /\ entry' = Callee("update")
    /\ op' = "update"
    /\ last' = [op |-> "call", entry |-> "update", invoked |-> TRUE]
    /\ UNCHANGED <<overflow_checks, mem, stores, host, resolved, shadow, hist, valid_seen,
                 threadVars, startupVars>>

\* call_on_resize ... call_on_key_up: a no-op returning Ok when the handle is None
CallOn(e) ==
    /\ pc = "host"
    /\ IF Callee(e) \in resolved
       THEN /\ pc' = "guest"
            /\ entry' = Callee(e)
            /\ op' = e
            /\ last' = [op |-> "call", entry |-> e, invoked |-> TRUE]
       ELSE /\ last' = [op |-> "call", entry |-> e, invoked |-> FALSE]
            /\ UNCHANGED <<pc, entry, op>>
    /\ UNCHANGED <<overflow_checks, mem, stores, host, resolved, shadow, hist, valid_seen,
                 threadVars, startupVars>>

\* the guest writes a byte of its own memory
GuestStore(a) ==
    /\ pc = "guest"
    /\ stores < MaxStores
    /\ mem' = [mem EXCEPT ![a + 1] = 255]
    /\ stores' = stores + 1
    /\ last' = [op |-> "store"]
    /\ UNCHANGED <<overflow_checks, host, pc, entry, op, resolved, shadow, hist, valid_seen,
                 threadVars, startupVars>>

\* the guest calls the import wapps::update_frame
GuestUpdateFrame(w, h, p) ==
    /\ pc = "guest"
    /\ LET r == update_frame(mem, host, w, h, p)
       IN  /\ host' = r.host
           /\ pc' = IF r.outcome = "panic" THEN "panicked" ELSE pc
           /\ entry' = IF r.outcome = "panic" THEN "" ELSE entry
           /\ op' = IF r.outcome = "panic" THEN "" ELSE op
           /\ last' = [op |-> "update_frame", outcome |-> r.outcome]
           /\ hist' = IF r.outcome = "stored"
                      THEN Record(hist, w, h, r.pixels)
                      ELSE hist
    /\ shadow' = IF ValidRequest(mem, w, h, p)
                 THEN Some(w, h, SubSeq(mem, p + 1, p + FrameBytes(w, h)))
                 ELSE None
    /\ valid_seen' = (valid_seen \/ ~OutOfBounds(mem, w, h, p))
    /\ UNCHANGED <<overflow_checks, mem, stores, resolved, threadVars, startupVars>>

\* the entry point returns to call_*, which returns Ok(())
GuestReturn ==
    /\ pc = "guest"
    /\ pc' = "host"
    /\ entry' = ""
    /\ op' = ""
    /\ last' = [op |-> "return", entry |-> entry, result |-> "ok", context |-> ""]
    /\ UNCHANGED <<overflow_checks, mem, stores, host, resolved, shadow, hist, valid_seen,
                 threadVars, startupVars>>

\* the entry point traps: call_* returns the error with its context
GuestTrap ==
    /\ pc = "guest"
    /\ pc' = "host"
    /\ entry' = ""
    /\ op' = ""
    /\ last' = [op |-> "return", entry |-> entry, result |-> "err",
                context |-> ContextOf[op]]
    /\ UNCHANGED <<overflow_checks, mem, stores, host, resolved, shadow, hist, valid_seen,
                 threadVars, startupVars>>

\* with_frame_data: lock, borrow_frame, hand the frame to the closure
WithFrameData ==
    /\ pc = "host"
    /\ LET r == borrow_frame(host)
       IN  /\ host' = r.host
           /\ last' = [op |-> "take", res |-> r.res, sets |-> hist,
                       shadow |-> shadow, valid_seen |-> valid_seen]
    /\ hist' = NoSets
    /\ shadow' = None
    /\ UNCHANGED <<overflow_checks, mem, stores, pc, entry, op, resolved, valid_seen,
                 threadVars, startupVars>>

Next ==
    \/ CallUpdate
    \/ \E e \in OptionalEntryPoints : CallOn(e)
    \/ \E a \in StoreAddrs : GuestStore(a)
    \/ \E w \in Dims, h \in Dims, p \in Ptrs : GuestUpdateFrame(w, h, p)
    \/ GuestReturn
    \/ GuestTrap
    \/ WithFrameData

Spec == Init /\ [][Next]_vars

----------------------------------------------------------------------------
(* Producer and consumer on two threads, sharing the Arc<Mutex<HostInterface>> *)

\* the frames the producing guest asks for: <<width, height, pixels_ptr>>
ThreadRequests == {<<1, 1, MemLen - 4>>, <<2, 1, 0>>, <<1, 2, 0>>}

\* Mutex::lock returns only once no other thread holds the mutex
MutexLockable_unguarded(m) == TRUE

MutexLockable(m) == m = "free"

InitThreads == InitSandbox /\ resolved = {} /\ ThreadsIdle /\ LoaderIdle /\ DriverIdle

\* the guest calls update_frame: the bridge up to the slice
P_Call(w, h, p) ==
    /\ ppc = "idle"
    /\ LET b == bridge_slice(mem, w, h, p)
       IN  /\ ppc' = CASE b.outcome = "stored"  -> "lock"
                       [] b.outcome = "dropped" -> "idle"
                       [] b.outcome = "panic"   -> "dead"
           /\ p_req' = IF b.outcome = "stored" THEN Some(w, h, b.pixels) ELSE None
    /\ UNCHANGED <<hostVars, mutex, poisoned, cpc, c_obs, startupVars>>

\* caller.data().host.lock(): a poisoned mutex gives Err and the frame is skipped
P_Lock ==
    /\ ppc = "lock"
    /\ MutexLockable(mutex)
    /\ IF poisoned
       THEN /\ ppc' = "idle"
            /\ UNCHANGED mutex
       ELSE /\ ppc' = "width"
            /\ mutex' = "producer"
    /\ UNCHANGED <<hostVars, poisoned, cpc, p_req, c_obs, startupVars>>

\* the next statement of set_frame
P_Step ==
    /\ \E i \in 1..Len(SetFrameSteps) :
          /\ ppc = SetFrameSteps[i]
          /\ host' = SetFrameStep(host, ppc, p_req[2], p_req[3], p_req[4])
          /\ ppc' = IF i < Len(SetFrameSteps) THEN SetFrameSteps[i + 1] ELSE "unlock"
    /\ UNCHANGED <<sandboxVars, mutex, poisoned, cpc, p_req, c_obs, startupVars>>

\* the guard is dropped and update_frame returns to the guest
P_Unlock ==
    /\ ppc = "unlock"
    /\ ppc' = "idle"
    /\ mutex' = "free"
    /\ UNCHANGED <<hostVars, poisoned, cpc, p_req, c_obs, startupVars>>

\* the presentation side calls with_frame_data
C_Call ==
    /\ cpc = "idle"
    /\ cpc' = "lock"
    /\ c_obs' = None
    /\ UNCHANGED <<hostVars, mutex, poisoned, ppc, p_req, startupVars>>

\* self.host_interface.lock().ok()?: a poisoned mutex makes the call return None
C_Lock ==
    /\ cpc = "lock"
    /\ MutexLockable(mutex)
    /\ IF poisoned
       THEN /\ cpc' = "idle"
            /\ UNCHANGED mutex
       ELSE /\ cpc' = "borrow"
            /\ mutex' = "consumer"
    /\ UNCHANGED <<hostVars, poisoned, ppc, p_req, c_obs, startupVars>>

\* host.borrow_frame(): None ends the call, Some hands width, height and a
\* borrowed slice of frame_len bytes to the closure
C_Borrow ==
    /\ cpc = "borrow"
    /\ LET r == borrow_frame(host)
       IN  /\ host' = r.host
           /\ IF r.res = None
              THEN /\ cpc' = "idle"
                   /\ mutex' = "free"
                   /\ c_obs' = None
              ELSE /\ cpc' = "in_f"
                   /\ c_obs' = <<"handed", r.res[2], r.res[3], Len(r.res[4]), <<>> >>
                   /\ UNCHANGED mutex
    /\ UNCHANGED <<sandboxVars, poisoned, ppc, p_req, startupVars>>

\* the closure reads the borrowed slice
C_Read ==
    /\ cpc = "in_f"
    /\ cpc' = "f_done"
    /\ LET n == IF c_obs[4] <= Len(host.frame_buffer) THEN c_obs[4]
                ELSE Len(host.frame_buffer)
       IN  c_obs' = <<"read", c_obs[2], c_obs[3], c_obs[4], SubSeq(host.frame_buffer, 1, n)>>
    /\ UNCHANGED <<hostVars, mutex, poisoned, ppc, p_req, startupVars>>

\* the closure returns, the guard is dropped
C_Return ==
    /\ cpc = "f_done"
    /\ cpc' = "idle"
    /\ mutex' = "free"
    /\ UNCHANGED <<hostVars, poisoned, ppc, p_req, c_obs, startupVars>>

\* the closure panics: the guard is dropped while unwinding and poisons the mutex
C_Panic ==
    /\ cpc \in {"in_f", "f_done"}
    /\ cpc' = "dead"
    /\ mutex' = "free"
    /\ poisoned' = TRUE
    /\ UNCHANGED <<hostVars, ppc, p_req, c_obs, startupVars>>

NextThreads ==
    \/ \E r \in ThreadRequests : P_Call(r[1], r[2], r[3])
    \/ P_Lock
    \/ P_Step
    \/ P_Unlock
    \/ C_Call
    \/ C_Lock
    \/ C_Borrow
    \/ C_Read
    \/ C_Return
    \/ C_Panic

SpecThreads == InitThreads /\ [][NextThreads]_vars

----------------------------------------------------------------------------
(* Container loader: loader.rs *)

WAPP_MAGIC == <<87, 65, 80, 80>>          \* b"WAPP"
WAPP_VERSION == 1
WAPP_MIN_SIZE == 5 + 1 + 1 + 8
WASM_MAGIC == <<0, 97, 115, 109>>         \* b"\0asm"
NAME_MAX_LEN == 256
DESCRIPTION_MAX_LEN == 1024

\* the fixed header of the length-prefixed layout: magic, version, metadata length
FIXED_HEADER_SIZE == 4 + 4 + 4

Min(a, b) == IF a <= b THEN a ELSE b

IsContinuation(b) == 128 <= b /\ b <= 191

\* continuation bytes that follow a leading byte; -1 for a byte that leads nothing
Utf8Width(b) ==
    IF b < 128 THEN 0
    ELSE IF IsContinuation(b) THEN 0
    ELSE IF 194 <= b /\ b <= 223 THEN 1
    ELSE IF 224 <= b /\ b <= 239 THEN 2
    ELSE IF 240 <= b /\ b <= 244 THEN 3
    ELSE 0 - 1

\* the range of the first continuation byte after leading byte b
Utf8Second(b, c) ==
    CASE b = 224 -> 160 <= c /\ c <= 191
      [] b = 237 -> 128 <= c /\ c <= 159
      [] b = 240 -> 144 <= c /\ c <= 191
      [] b = 244 -> 128 <= c /\ c <= 143
      [] OTHER   -> IsContinuation(c)

\* std::str::from_utf8 succeeds
ValidUtf8(s) ==
    /\ Len(s) > 0 => ~IsContinuation(s[1])
    /\ \A i \in 1..Len(s) :
          IsContinuation(s[i]) \/
          LET k == Utf8Width(s[i])
          IN  /\ k >= 0
              /\ i + k <= Len(s)
              /\ \A j \in 1..k : IF j = 1 THEN Utf8Second(s[i], s[i + 1])
                                 ELSE IsContinuation(s[i + j])
              /\ i + k < Len(s) => ~IsContinuation(s[i + k + 1])

\* read_null_terminated counting the terminator out of the bytes consumed
read_null_terminated_short(d, max_len) ==
    LET limit == Min(max_len, Len(d))
        nuls  == {i \in 1..limit : d[i] = 0}
    IN  IF nuls = {} THEN [ok |-> FALSE, s |-> <<>>, consumed |-> 0]
        ELSE LET pos == CHOOSE i \in nuls : \A j \in nuls : i <= j
             IN  IF ValidUtf8(SubSeq(d, 1, pos - 1))
                 THEN [ok |-> TRUE, s |-> SubSeq(d, 1, pos - 1), consumed |-> pos - 1]
                 ELSE [ok |-> FALSE, s |-> <<>>, consumed |-> 0]

\* read_null_terminated searching one byte past max_len
read_null_terminated_inclusive(d, max_len) ==
    LET limit == Min(max_len + 1, Len(d))
        nuls  == {i \in 1..limit : d[i] = 0}
    IN  IF nuls = {} THEN [ok |-> FALSE, s |-> <<>>, consumed |-> 0]
        ELSE LET pos == CHOOSE i \in nuls : \A j \in nuls : i <= j
             IN  IF ValidUtf8(SubSeq(d, 1, pos - 1))
                 THEN [ok |-> TRUE, s |-> SubSeq(d, 1, pos - 1), consumed |-> pos]
                 ELSE [ok |-> FALSE, s |-> <<>>, consumed |-> 0]

\* read_null_terminated consuming the byte after the terminator too
read_null_terminated_skips(d, max_len) ==
    LET limit == Min(max_len, Len(d))
        nuls  == {i \in 1..limit : d[i] = 0}
    IN  IF nuls = {} THEN [ok |-> FALSE, s |-> <<>>, consumed |-> 0]
        ELSE LET pos == CHOOSE i \in nuls : \A j \in nuls : i <= j
             IN  IF ValidUtf8(SubSeq(d, 1, pos - 1))
                 THEN [ok |-> TRUE, s |-> SubSeq(d, 1, pos - 1), consumed |-> pos + 1]
                 ELSE [ok |-> FALSE, s |-> <<>>, consumed |-> 0]

\* read_null_terminated refusing an empty string
read_null_terminated_nonempty(d, max_len) ==
    LET limit == Min(max_len, Len(d))
        nuls  == {i \in 2..limit : d[i] = 0}
    IN  IF nuls = {} \/ d[1] = 0 THEN [ok |-> FALSE, s |-> <<>>, consumed |-> 0]
        ELSE LET pos == CHOOSE i \in nuls : \A j \in nuls : i <= j
             IN  IF ValidUtf8(SubSeq(d, 1, pos - 1))
                 THEN [ok |-> TRUE, s |-> SubSeq(d, 1, pos - 1), consumed |-> pos]
                 ELSE [ok |-> FALSE, s |-> <<>>, consumed |-> 0]

\* read_null_terminated taking the end of the data for a terminator
read_null_terminated_to_end(d, max_len) ==
    LET limit == Min(max_len, Len(d))
        nuls  == {i \in 1..limit : d[i] = 0}
        pos   == IF nuls = {} THEN limit + 1 ELSE CHOOSE i \in nuls : \A j \in nuls : i <= j
    IN  IF ValidUtf8(SubSeq(d, 1, pos - 1))
        THEN [ok |-> TRUE, s |-> SubSeq(d, 1, pos - 1), consumed |-> Min(pos, Len(d))]
        ELSE [ok |-> FALSE, s |-> <<>>, consumed |-> 0]

\* read_null_terminated: the string before the first NUL among the first
\* max_len bytes, and the bytes consumed (the terminator included)
read_null_terminated(d, max_len) ==
    LET limit == Min(max_len, Len(d))
        nuls  == {i \in 1..limit : d[i] = 0}
    IN  IF nuls = {} THEN [ok |-> FALSE, s |-> <<>>, consumed |-> 0]
        ELSE LET pos == CHOOSE i \in nuls : \A j \in nuls : i <= j
             IN  IF ValidUtf8(SubSeq(d, 1, pos - 1))
                 THEN [ok |-> TRUE, s |-> SubSeq(d, 1, pos - 1), consumed |-> pos]
                 ELSE [ok |-> FALSE, s |-> <<>>, consumed |-> 0]

Err(kind) == <<"err", kind>>
Ok(wasm_bytes, name, description) == <<"ok", wasm_bytes, name, description>>
\* an index or a slice out of range
Panic == <<"panic">>

\* the size check without the check
TooSmall_unchecked(d) == FALSE

\* data.len() < WAPP_MIN_SIZE
TooSmall(d) == Len(d) < WAPP_MIN_SIZE

\* load_wapp with the version checked before the magic number
load_wapp_version_first(d) ==
    IF TooSmall(d) THEN Err("too small")
    ELSE IF Len(d) < 5 THEN Panic
    ELSE IF d[5] # WAPP_VERSION THEN Err("unsupported version")
    ELSE IF SubSeq(d, 1, 4) # WAPP_MAGIC THEN Err("incorrect magic number")
    ELSE
      LET n == read_null_terminated(SubSeq(d, 6, Len(d)), NAME_MAX_LEN)
      IN  IF ~n.ok THEN Err("app name")
          ELSE IF 5 + n.consumed > Len(d) THEN Panic    \* &data[offset..]
          ELSE
            LET offset == 5 + n.consumed
                de == read_null_terminated(SubSeq(d, offset + 1, Len(d)), DESCRIPTION_MAX_LEN)
            IN  IF ~de.ok THEN Err("app description")
                ELSE IF offset + de.consumed > Len(d) THEN Panic   \* data[offset..]
                ELSE
                  LET wasm_bytes == SubSeq(d, offset + de.consumed + 1, Len(d))
                  IN  IF Len(wasm_bytes) >= 4 /\ SubSeq(wasm_bytes, 1, 4) # WASM_MAGIC
                      THEN Err("invalid wasm module")
                      ELSE Ok(wasm_bytes, n.s, de.s)

\* load_wapp on the bytes read from the file
load_wapp(d) ==
    IF TooSmall(d) THEN Err("too small")
    ELSE IF Len(d) < 4 THEN Panic                       \* &data[0..4]
    ELSE IF SubSeq(d, 1, 4) # WAPP_MAGIC THEN Err("incorrect magic number")
    ELSE IF Len(d) < 5 THEN Panic                       \* data[4], &data[5..]
    ELSE IF d[5] # WAPP_VERSION THEN Err("unsupported version")
    ELSE
      LET n == read_null_terminated(SubSeq(d, 6, Len(d)), NAME_MAX_LEN)
      IN  IF ~n.ok THEN Err("app name")
          ELSE IF 5 + n.consumed > Len(d) THEN Panic    \* &data[offset..]
          ELSE
            LET offset == 5 + n.consumed
                de == read_null_terminated(SubSeq(d, offset + 1, Len(d)), DESCRIPTION_MAX_LEN)
            IN  IF ~de.ok THEN Err("app description")
                ELSE IF offset + de.consumed > Len(d) THEN Panic   \* data[offset..]
                ELSE
                  LET wasm_bytes == SubSeq(d, offset + de.consumed + 1, Len(d))
                  IN  IF Len(wasm_bytes) >= 4 /\ SubSeq(wasm_bytes, 1, 4) # WASM_MAGIC
                      THEN Err("invalid wasm module")
                      ELSE Ok(wasm_bytes, n.s, de.s)

\* the layout load_wapp reads: magic, version byte, name NUL, description NUL, module
write_wapp(name, description, payload) ==
    WAPP_MAGIC \o <<WAPP_VERSION>> \o name \o <<0>> \o description \o <<0>> \o payload

\* a 32-bit little-endian integer
LE32(n) == <<n % 256, (n \div 256) % 256, (n \div 65536) % 256, (n \div 16777216) % 256>>

\* the 32-bit little-endian integer at byte offset off of d
FromLE32(d, off) ==
    d[off + 1] + 256 * d[off + 2] + 65536 * d[off + 3] + 16777216 * d[off + 4]

\* the metadata block of the length-prefixed layout: {"name":"..","description":".."}
MetadataBlock(name, description) ==
    <<123, 34, 110, 97, 109, 101, 34, 58, 34>> \o name
    \o <<34, 44, 34, 100, 101, 115, 99, 114, 105, 112, 116, 105, 111, 110, 34, 58, 34>>
    \o description \o <<34, 125>>

\* the length-prefixed layout: magic, version (4 bytes), metadata length N
\* (4 bytes), N bytes of metadata, module
write_length_prefixed(name, description, payload) ==
    LET meta == MetadataBlock(name, description)
    IN  WAPP_MAGIC \o LE32(WAPP_VERSION) \o LE32(Len(meta)) \o meta \o payload

\* the length-prefixed layout around a given metadata block
write_metadata_block(meta, payload) ==
    WAPP_MAGIC \o LE32(WAPP_VERSION) \o LE32(Len(meta)) \o meta \o payload

Rep(b, n) == [i \in 1..n |-> b]

\* names, descriptions (UTF-8 strings) and payloads written to a file
Names ==
    {<<>>, <<65>>, <<195, 169>>, <<65, 0, 66>>,
     Rep(65, NAME_MAX_LEN - 1), Rep(65, NAME_MAX_LEN)}
Descriptions ==
    {<<>>, <<100, 226, 130, 172>>,
     Rep(100, DESCRIPTION_MAX_LEN - 1), Rep(100, DESCRIPTION_MAX_LEN)}
Payloads ==
    {WASM_MAGIC, WASM_MAGIC \o <<1, 0, 0, 0>>, WASM_MAGIC \o <<1, 0, 0, 0, 0, 1, 4>>}
Layouts == {"wapp", "length-prefixed"}

\* files that no writer produced: a magic, a version, metadata bytes and a
\* payload, cut at a length
Prefix(d, k) == SubSeq(d, 1, Min(k, Len(d)))
RawMagics == {WAPP_MAGIC, <<87, 65, 80, 88>>}
RawVersions == {<<WAPP_VERSION>>, <<2>>, LE32(WAPP_VERSION), LE32(2)}
RawMetadata ==
    {<<0, 0>>, <<65, 0, 0>>, <<65, 65>>, <<255, 0, 0>>, <<65, 0, 66>>, <<65, 0, 255, 0>>,
     <<255, 0, 66>>,
     Rep(65, 9) \o <<0, 0>>,
     LE32(2) \o <<123, 125>>,                           \* 2, {}
     LE32(7) \o <<123, 34, 120, 34, 58, 49, 125>>,      \* 7, {"x":1}
     LE32(200) \o <<123, 125>>}
RawPayloads ==
    {<<>>, <<0, 97, 115>>, WASM_MAGIC \o <<1, 0, 0, 0>>, <<1, 2, 3, 4, 5, 6, 7, 8>>}
RawCuts == {0, 3, 4, 5, 11, 12, 14, 15, 16, 64}
RawFiles ==
    {Prefix(m \o v \o meta \o p, k) :
        m \in RawMagics, v \in RawVersions, meta \in RawMetadata, p \in RawPayloads,
        k \in RawCuts}
RawInput == [name |-> <<>>, description |-> <<>>, payload |-> <<>>, layout |-> "raw"]

InitLoader ==
    /\ InitSandbox
    /\ overflow_checks = FALSE
    /\ resolved = {}
    /\ ThreadsIdle
    /\ DriverIdle
    /\ \/ /\ wapp_in \in [name : Names, description : Descriptions, payload : Payloads,
                          layout : Layouts]
          /\ file_bytes = IF wapp_in.layout = "wapp"
                          THEN write_wapp(wapp_in.name, wapp_in.description, wapp_in.payload)
                          ELSE write_length_prefixed(wapp_in.name, wapp_in.description,
                                                     wapp_in.payload)
       \/ /\ wapp_in = RawInput
          /\ file_bytes \in RawFiles
    /\ loaded = <<"pending">>

LoadWapp ==
    /\ loaded = <<"pending">>
    /\ loaded' = load_wapp(file_bytes)
    /\ UNCHANGED <<hostVars, threadVars, wapp_in, file_bytes, driverVars>>

NextLoader == LoadWapp

SpecLoader == InitLoader /\ [][NextLoader]_vars

----------------------------------------------------------------------------
(* Construction of the sandbox (WasmRuntime::new) and the driving loop       *)
(* (main and run_app)                                                        *)

\* what a module exports under an entry point's name: nothing, a function of
\* the entry point's signature, or something else
ExportKinds == {"absent", "ok", "mismatch"}

\* the optional exports of the modules considered
OptionalTables ==
    {[e \in OptionalEntryPoints |-> "absent"],
     [e \in OptionalEntryPoints |->
        CASE e = "on_resize" -> "ok" [] e = "on_key_down" -> "mismatch" [] OTHER -> "absent"],
     [e \in OptionalEntryPoints |-> IF e = "on_pointer_up" THEN "mismatch" ELSE "ok"]}

\* guest modules: whether the bytes compile, what is exported as "memory",
\* the exports under the entry points' names, and what the start function does
GuestModules ==
    {[valid |-> v, memory |-> m,
      exports |-> [e \in EntryPoints |-> IF e = "update" THEN u ELSE t[e]],
      start |-> st] :
        v \in BOOLEAN, m \in {"memory", "absent", "function"}, u \in ExportKinds,
        t \in OptionalTables, st \in {"none", "trap", "update_frame"}}

\* what the start function passes to update_frame: <<width, height, pixels_ptr>>
StartRequests == {<<1, 1, 0>>, <<1, 1, -4>>}

\* get_typed_func(name).ok() of any function, whatever its signature
Typed_any_signature(m, name) == m.exports[name] # "absent"

\* get_typed_func::<sig>(name).ok() is Some
Typed(m, name) == m.exports[name] = "ok"

\* the check of the required export left out
UpdateMissing_never(m) == FALSE

\* update_fn.is_none()
UpdateMissing(m) == ~Typed(m, ExportOf["update_fn"])

\* linker.instantiate: the start function runs, and may call the import
Instantiate(m, data, h, req) ==
    CASE m.start = "none" -> [outcome |-> "ok", host |-> h]
      [] m.start = "trap" -> [outcome |-> "trap", host |-> h]
      [] m.start = "update_frame" ->
            IF m.memory # "memory"
            THEN [outcome |-> "panic", host |-> h]      \* .expect("Guest must export 'memory'")
            ELSE LET r == update_frame(data, h, req[1], req[2], req[3])
                 IN  [outcome |-> IF r.outcome = "panic" THEN "panic" ELSE "ok",
                      host |-> r.host]

\* WasmRuntime::new once linker.instantiate has returned i: the memory export,
\* the cached handles, the required `update`
ResolveExports(m, i) ==
    CASE i.outcome = "panic" ->
           [result |-> Panic, instantiate |-> "panic", host |-> i.host, resolved |-> {}]
      [] i.outcome = "trap" ->
           [result |-> Err("Failed to instantiate WASM module"),
            instantiate |-> "trap", host |-> i.host, resolved |-> {}]
      [] OTHER ->
           IF m.memory # "memory"
           THEN [result |-> Err("Guest must export 'memory'"),
                 instantiate |-> "ok", host |-> i.host, resolved |-> {}]
           ELSE IF UpdateMissing(m)
           THEN [result |-> Err("Guest must export 'update(dt: f64)' function"),
                 instantiate |-> "ok", host |-> i.host, resolved |-> {}]
           ELSE [result |-> <<"ok">>, instantiate |-> "ok", host |-> i.host,
                 resolved |-> {ExportOf[f] : f \in {g \in DOMAIN ExportOf :
                                  g # "update_fn" /\ Typed(m, ExportOf[g])}}]

\* WasmRuntime::new
WasmRuntime_new(m, data, h, req) ==
    IF ~m.valid
    THEN [result |-> Err("Failed to compile WASM module"), instantiate |-> "none",
          host |-> h, resolved |-> {}]
    ELSE ResolveExports(m, Instantiate(m, data, h, req))

\* main: exit(1) when run_app returned an error, otherwise the end of main
ExitStatus(r) == IF r[1] = "err" THEN <<"exit", 1>> ELSE <<"exit", 0>>

\* sdl2::mouse::MouseButton
MouseButtons == {"Unknown", "Left", "Middle", "Right", "X1", "X2"}

\* MouseButton as i32: the numbering of SDL
mouse_button_to_int_sdl(btn) ==
    CASE btn = "Left" -> 1
      [] btn = "Middle" -> 2
      [] btn = "Right" -> 3
      [] btn = "X1" -> 4
      [] btn = "X2" -> 5
      [] OTHER -> 0

mouse_button_to_int(btn) ==
    CASE btn = "Left" -> 1
      [] btn = "Middle" -> 2
      [] btn = "Right" -> 3
      [] OTHER -> 0

\* an event of graphics.poll_events(), named by the entry point run_app calls
\* for it; "quit" is Event::Quit and "other" any event run_app ignores
Event(kind) == [kind |-> kind, mouse_btn |-> "Unknown"]

MouseButtonEvent(kind, btn) == [kind |-> kind, mouse_btn |-> btn]

\* the batches graphics.poll_events() returns
Batches ==
    {<<>>,
     <<Event("quit")>>,
     <<Event("on_key_down"), Event("on_resize")>>,
     <<Event("on_resize"), Event("quit"), Event("on_key_down")>>,
     <<Event("other"), Event("on_pointer_move"), Event("on_key_up")>>,
     <<MouseButtonEvent("on_pointer_down", "Left"), MouseButtonEvent("on_pointer_up", "Left"),
       MouseButtonEvent("on_pointer_down", "Right"), MouseButtonEvent("on_pointer_up", "X1")>>,
     <<MouseButtonEvent("on_pointer_down", "Middle"), MouseButtonEvent("on_pointer_up", "Right"),
       MouseButtonEvent("on_pointer_down", "X2"), MouseButtonEvent("on_pointer_up", "Unknown")>>,
     <<MouseButtonEvent("on_pointer_up", "Middle"), MouseButtonEvent("on_pointer_down", "X1"),
       Event("quit"), MouseButtonEvent("on_pointer_up", "X2"),
       MouseButtonEvent("on_pointer_down", "Unknown")>>}

\* `for` visiting a batch back to front
ForNext_reversed(events) ==
    [event |-> events[Len(events)], rest |-> SubSeq(events, 1, Len(events) - 1)]

\* `for event in graphics.poll_events()`: the event visited next and the rest
ForNext(events) == [event |-> Head(events), rest |-> Tail(events)]

\* the arguments run_app passes to call_on_* beside the coordinates
CallArgs(ev) ==
    IF ev.kind \in {"on_pointer_down", "on_pointer_up"}
    THEN <<mouse_button_to_int(ev.mouse_btn)>>
    ELSE <<>>

\* run_app is about to construct the runtime for some guest module
InitDriver ==
    /\ overflow_checks \in BOOLEAN
    /\ mem = [i \in 1..MemLen |-> i - 1]
    /\ stores = 0
    /\ host = HostInterfaceNew
    /\ pc = "host"
    /\ entry = ""
    /\ op = ""
    /\ resolved = {}
    /\ last = [op |-> "start"]
    /\ shadow = None
    /\ hist = NoSets
    /\ valid_seen = FALSE
    /\ ThreadsIdle
    /\ LoaderIdle
    /\ module \in GuestModules
    /\ dpc = "new"
    /\ run_result = None
    /\ exit_status = None
    /\ batch = NoBatch
    /\ iter = NoIteration
    /\ ticks = 0
    /\ wasi = {}
    /\ linker = {}

\* what the guest passes to update_frame under the driving loop
DriverRequests == {<<1, 1, 0>>, <<2, 1, 0>>, <<1, 1, -4>>}

\* what the guest may ask of the system interface
Capabilities == {"stdout", "stderr", "clock", "random", "filesystem", "network", "env"}

driverFixed == <<overflow_checks, mem, stores, shadow, hist, valid_seen, threadVars,
                 loaderVars, module, wasi, linker>>

\* run_app with the result r of WasmRuntime::new: a panic ends the process,
\* `?` returns an error, the loop starts otherwise
Constructed(r) ==
    /\ host' = r.host
    /\ resolved' = r.resolved
    /\ last' = [op |-> "new", instantiate |-> r.instantiate, result |-> r.result]
    /\ IF r.result = Panic
       THEN /\ pc' = "panicked"
            /\ dpc' = "exited"
            /\ exit_status' = <<"panic">>
            /\ UNCHANGED run_result
       ELSE IF r.result[1] = "err"
       THEN /\ dpc' = "failed"
            /\ run_result' = r.result
            /\ UNCHANGED <<pc, exit_status>>
       ELSE /\ dpc' = "events"
            /\ UNCHANGED <<pc, run_result, exit_status>>

\* run_app: WasmRuntime::new(&wasm_bytes, host_interface)?
D_New(req) ==
    /\ dpc = "new"
    /\ wasi' = StoreState_new
    /\ linker' = LinkerDefinitions
    /\ Constructed(WasmRuntime_new(module, mem, host, req))
    /\ UNCHANGED <<entry, op, batch, iter, ticks, overflow_checks, mem, stores, shadow, hist,
                 valid_seen, threadVars, loaderVars, module>>

\* run_app: a new iteration of 'main_loop, graphics.poll_events()
D_Poll(events) ==
    /\ dpc = "events"
    /\ ~batch.polled
    /\ batch' = [polled |-> TRUE, events |-> events]
    /\ iter' = [delivered |-> events, dispatched |-> <<>>, updates |-> 0, takes |-> 0]
    /\ last' = [op |-> "poll"]
    /\ UNCHANGED <<host, pc, entry, op, resolved, dpc, run_result, exit_status, ticks,
                 driverFixed>>

\* run_app: the next event of the batch is an input or window event,
\* runtime.call_on_*(..)?
D_Event(e) ==
    /\ dpc = "events"
    /\ batch.polled
    /\ batch.events # <<>>
    /\ ForNext(batch.events).event.kind = e
    /\ batch' = [batch EXCEPT !.events = ForNext(batch.events).rest]
    /\ iter' = [iter EXCEPT !.dispatched = Append(@, ForNext(batch.events).event)]
    /\ IF Callee(e) \in resolved
       THEN /\ pc' = "guest"
            /\ entry' = Callee(e)
            /\ op' = e
            /\ dpc' = "event_call"
            /\ last' = [op |-> "call", entry |-> e, invoked |-> TRUE,
                        event |-> ForNext(batch.events).event,
                        args |-> CallArgs(ForNext(batch.events).event)]
       ELSE /\ last' = [op |-> "call", entry |-> e, invoked |-> FALSE,
                        event |-> ForNext(batch.events).event,
                        args |-> CallArgs(ForNext(batch.events).event)]
            /\ UNCHANGED <<pc, entry, op, dpc>>
    /\ UNCHANGED <<host, resolved, run_result, exit_status, ticks, driverFixed>>

\* run_app: the next event of the batch is one the match ignores
D_Ignore ==
    /\ dpc = "events"
    /\ batch.polled
    /\ batch.events # <<>>
    /\ ForNext(batch.events).event.kind = "other"
    /\ batch' = [batch EXCEPT !.events = ForNext(batch.events).rest]
    /\ last' = [op |-> "ignore"]
    /\ UNCHANGED <<host, pc, entry, op, resolved, dpc, run_result, exit_status, iter, ticks,
                 driverFixed>>

\* Event::Quit leaving only the `for` loop: break
D_Quit_break_for ==
    /\ dpc = "events"
    /\ batch.polled
    /\ batch.events # <<>>
    /\ ForNext(batch.events).event.kind = "quit"
    /\ batch' = [batch EXCEPT !.events = <<>>]
    /\ last' = [op |-> "quit"]
    /\ UNCHANGED <<host, pc, entry, op, resolved, dpc, run_result, exit_status, iter, ticks,
                 driverFixed>>

\* run_app: the next event of the batch is Event::Quit, break 'main_loop, Ok(())
D_Quit ==
    /\ dpc = "events"
    /\ batch.polled
    /\ batch.events # <<>>
    /\ ForNext(batch.events).event.kind = "quit"
    /\ batch' = [batch EXCEPT !.events = ForNext(batch.events).rest]
    /\ dpc' = "returned"
    /\ run_result' = <<"ok">>
    /\ last' = [op |-> "quit"]
    /\ UNCHANGED <<host, pc, entry, op, resolved, exit_status, iter, ticks, driverFixed>>

\* run_app: the batch is exhausted, runtime.call_update(dt)?
D_Update ==
    /\ dpc = "events"
    /\ batch.polled
    /\ batch.events = <<>>
    /\ batch' = NoBatch
    /\ iter' = [iter EXCEPT !.updates = @ + 1]
    /\ pc' = "guest"
    /\ entry' = Callee("update")
    /\ op' = "update"
    /\ dpc' = "update_call"
    /\ last' = [op |-> "call", entry |-> "update", invoked |-> TRUE,
                event |-> Event("update"), args |-> <<>>]
    /\ UNCHANGED <<host, resolved, run_result, exit_status, ticks, driverFixed>>

\* store.set_epoch_deadline(1): the deadline, in ticks of the engine's epoch
EPOCH_DEADLINE == 1

\* the running entry point goes on running: nothing advances the engine's
\* epoch and the default engine does not interrupt at a deadline
D_GuestRun ==
    /\ pc = "guest"
    /\ ticks < MaxTicks
    /\ ticks' = ticks + 1
    /\ UNCHANGED <<host, pc, entry, op, resolved, last, dpc, run_result, exit_status, batch,
                 iter, driverFixed>>

\* the running entry point asks the system interface for a capability
D_GuestWasi(c) ==
    /\ pc = "guest"
    /\ last' = [op |-> "wasi", capability |-> c, granted |-> c \in wasi]
    /\ UNCHANGED <<host, pc, entry, op, resolved, dpc, run_result, exit_status, batch, iter,
                 ticks, driverFixed>>

\* the running entry point calls the import wapps::update_frame
D_GuestUpdateFrame(req) ==
    /\ pc = "guest"
    /\ LET r == update_frame(mem, host, req[1], req[2], req[3])
       IN  /\ host' = r.host
           /\ last' = [op |-> "update_frame", outcome |-> r.outcome]
           /\ IF r.outcome = "panic"
              THEN /\ pc' = "panicked"
                   /\ entry' = ""
                   /\ op' = ""
                   /\ dpc' = "exited"
                   /\ exit_status' = <<"panic">>
              ELSE UNCHANGED <<pc, entry, op, dpc, exit_status>>
    /\ UNCHANGED <<resolved, run_result, batch, iter, ticks, driverFixed>>

\* the running entry point returns: call_* returns Ok(()) and the loop goes on
D_GuestReturn ==
    /\ pc = "guest"
    /\ pc' = "host"
    /\ entry' = ""
    /\ op' = ""
    /\ ticks' = 0
    /\ dpc' = IF dpc = "event_call" THEN "events" ELSE "frame"
    /\ last' = [op |-> "return", entry |-> entry, result |-> "ok", context |-> ""]
    /\ UNCHANGED <<host, resolved, run_result, exit_status, batch, iter, driverFixed>>

\* D_GuestTrap with the error logged and the loop going on
D_GuestTrap_continue ==
    /\ pc = "guest"
    /\ pc' = "host"
    /\ entry' = ""
    /\ op' = ""
    /\ ticks' = 0
    /\ dpc' = IF dpc = "event_call" THEN "events" ELSE "frame"
    /\ last' = [op |-> "return", entry |-> entry, result |-> "err",
                context |-> ContextOf[op]]
    /\ UNCHANGED <<host, resolved, run_result, exit_status, batch, iter, driverFixed>>

\* the running entry point traps: call_* returns the error and `?` returns it
\* from run_app
D_GuestTrap ==
    /\ pc = "guest"
    /\ pc' = "host"
    /\ entry' = ""
    /\ op' = ""
    /\ ticks' = 0
    /\ dpc' = "failed"
    /\ run_result' = Err(ContextOf[op])
    /\ last' = [op |-> "return", entry |-> entry, result |-> "err",
                context |-> ContextOf[op]]
    /\ UNCHANGED <<host, resolved, exit_status, batch, iter, driverFixed>>

\* run_app: the frame is taken and shown, then the loop sleeps and starts over
D_Frame ==
    /\ dpc = "frame"
    /\ LET r == borrow_frame(host)
       IN  /\ host' = r.host
           /\ last' = [op |-> "take", res |-> r.res]
    /\ iter' = [iter EXCEPT !.takes = @ + 1]
    /\ dpc' = "events"
    /\ UNCHANGED <<pc, entry, op, resolved, run_result, exit_status, batch, ticks,
                 driverFixed>>

\* run_app: the frame is taken, then graphics.update_texture(..)? or
\* graphics.render()? fails
D_GraphicsError ==
    /\ dpc = "frame"
    /\ host' = borrow_frame(host).host
    /\ iter' = [iter EXCEPT !.takes = @ + 1]
    /\ dpc' = "failed"
    /\ run_result' = Err("graphics")
    /\ last' = [op |-> "render"]
    /\ UNCHANGED <<pc, entry, op, resolved, exit_status, batch, ticks, driverFixed>>

\* main: run_app has returned
D_Exit ==
    /\ dpc \in {"failed", "returned"}
    /\ dpc' = "exited"
    /\ exit_status' = ExitStatus(run_result)
    /\ UNCHANGED <<host, pc, entry, op, resolved, last, run_result, batch, iter, ticks,
                 driverFixed>>

NextDriver ==
    \/ \E req \in StartRequests : D_New(req)
    \/ \E events \in Batches : D_Poll(events)
    \/ \E e \in OptionalEntryPoints : D_Event(e)
    \/ D_Ignore
    \/ D_Quit
    \/ D_Update
    \/ D_GuestRun
    \/ \E c \in Capabilities : D_GuestWasi(c)
    \/ \E req \in DriverRequests : D_GuestUpdateFrame(req)
    \/ D_GuestReturn
    \/ D_GuestTrap
    \/ D_Frame
    \/ D_GraphicsError
    \/ D_Exit

SpecDriver == InitDriver /\ [][NextDriver]_vars

----------------------------------------------------------------------------
(* The Frame Hand-off Buffer alone: any sequence of set_frame and borrow_frame *)

\* the frames set: <<width, height, pixels>>
BufferFrames ==
    {<<0, 0, <<>>>>, <<1, 1, Rep(1, 4)>>, <<1, 1, Rep(2, 4)>>, <<3, 1, Rep(3, 12)>>,
     <<2, 2, Rep(4, 16)>>, <<5, 1, Rep(5, 20)>>, <<2, 1, Rep(6, 8)>>, <<1, 3, Rep(7, 12)>>,
     <<3, 2, Rep(8, 24)>>}

InitBuffer == InitSandbox /\ overflow_checks = FALSE /\ resolved = {}
              /\ ThreadsIdle /\ LoaderIdle /\ DriverIdle

\* host.set_frame(width, height, pixels)
B_SetFrame(f) ==
    /\ host' = set_frame(host, f[1], f[2], f[3])
    /\ last' = [op |-> "set_frame", len |-> Len(f[3]), cap |-> host.frame_capacity]
    /\ UNCHANGED <<overflow_checks, mem, stores, pc, entry, op, resolved, shadow, hist,
                 valid_seen, threadVars, startupVars>>

\* host.borrow_frame()
B_BorrowFrame ==
    /\ host' = borrow_frame(host).host
    /\ last' = [op |-> "take", len |-> 0, cap |-> host.frame_capacity]
    /\ UNCHANGED <<overflow_checks, mem, stores, pc, entry, op, resolved, shadow, hist,
                 valid_seen, threadVars, startupVars>>

NextBuffer ==
    \/ \E f \in BufferFrames : B_SetFrame(f)
    \/ B_BorrowFrame

SpecBuffer == InitBuffer /\ [][NextBuffer]_vars

----------------------------------------------------------------------------
(* Properties of the Memory Bridge and the Frame Hand-off Buffer *)

\* C1: an update_frame call whose pointer + width*height*4 exceeds the guest
\* memory's byte length copies nothing and leaves the hand-off buffer (width,
\* height, bytes, dirty flag) exactly as it was.
C1_OutOfBoundsLeavesBuffer ==
    [][\A w \in Dims, h \in Dims, p \in Ptrs :
          (GuestUpdateFrame(w, h, p) /\ OutOfBounds(mem, w, h, p)) => host' = host]_vars

\* C2: whatever i32 triple the guest passes, update_frame returns normally:
\* the request is stored or dropped, and the host never panics.
C2_BridgeNeverPanics ==
    last.op = "update_frame" => last.outcome \in {"stored", "dropped"}

C4_FrameRecordShape ==
    /\ host.frame_width >= 0
    /\ host.frame_height >= 0
    /\ host.frame_len = host.frame_width * host.frame_height * 4

\* C5: latest value wins: a take that returns a frame returns the width, height
\* and bytes of the last set_frame since the previous take, also after two or
\* more set_frame calls and when an earlier frame was longer; no earlier frame
\* is returned.
C5_LatestValueWins ==
    last.op = "take" =>
        /\ last.sets.n >= 2 => last.res = last.sets.latest
        /\ last.res # None => last.res = last.sets.latest

\* two set_frame calls, the second shorter than the first, then a take
C5_Witness ==
    /\ last.op = "take"
    /\ last.sets.n = 2
    /\ last.sets.shrunk
    /\ last.res = last.sets.latest

\* C6: a take returns a frame exactly when set_frame has been called since the
\* previous take, and it leaves the dirty flag clear: the take after a take
\* returns "no new frame".
C6_TakeIffSetSince ==
    last.op = "take" =>
        /\ (last.res # None) <=> (last.sets.n > 0)
        /\ ~host.frame_dirty

\* a take that finds the stored frame already taken
C6_Witness ==
    /\ last.op = "take"
    /\ last.res = None
    /\ host.frame_len > 0
    /\ last.sets.n = 0

\* C7: the buffer starts empty and not dirty, and until the first in-bounds
\* update_frame call every take returns "no new frame".
C7_NoFrameBeforeFirstInBounds ==
    /\ (last.op = "new" => host = HostInterfaceNew)
    /\ (last.op = "take" /\ ~last.valid_seen) => last.res = None

\* C8: with producer and consumer on two threads, the width, the height and
\* the bytes the consumer's closure reads all come from one set_frame call:
\* never the width or height of one frame with the bytes of another, never
\* a partially copied buffer.
C8_NoTornFrame ==
    c_obs[1] = "read" =>
        \E r \in ThreadRequests :
            /\ c_obs[2] = r[1]
            /\ c_obs[3] = r[2]
            /\ c_obs[5] = SubSeq(mem, r[3] + 1, r[3] + FrameBytes(r[1], r[2]))

\* the closure has read one frame while the producer is at the lock with another
C8_Witness ==
    /\ c_obs[1] = "read"
    /\ cpc = "f_done"
    /\ ppc = "lock"
    /\ <<p_req[2], p_req[3]>> # <<c_obs[2], c_obs[3]>>

C26_CapacityNeverShrinks ==
    [][/\ host'.frame_capacity >= host.frame_capacity
       /\ (last'.op = "set_frame" /\ last'.len <= host.frame_capacity) =>
             host'.frame_capacity = host.frame_capacity
       /\ (last'.op = "set_frame" /\ last'.len > host.frame_capacity) =>
             host'.frame_capacity >= last'.len
       /\ last'.op = "take" => host'.frame_capacity = host.frame_capacity
       /\ host'.frame_capacity >= Len(host'.frame_buffer)]_vars

\* after a frame of 12 bytes and a shorter one, a frame of 16 bytes grew the
\* capacity from 12
C26_Witness ==
    /\ last.op = "set_frame"
    /\ last.len = 16
    /\ last.cap = 12
    /\ host.frame_capacity >= 16
    /\ host.frame_len = 16

----------------------------------------------------------------------------
(* Properties of the container loader *)

\* a record and payload the NUL-terminated layout can carry: a name field of
\* at most 256 bytes and a description field of at most 1024, terminator
\* included, no NUL inside, and a module of at least magic and version
Carriable(in) ==
    /\ Len(in.name) + 1 <= NAME_MAX_LEN
    /\ Len(in.description) + 1 <= DESCRIPTION_MAX_LEN
    /\ \A i \in 1..Len(in.name) : in.name[i] # 0
    /\ \A i \in 1..Len(in.description) : in.description[i] # 0
    /\ Len(in.payload) >= 8
    /\ SubSeq(in.payload, 1, 4) = WASM_MAGIC

\* C10 as stated: every record and every payload that begins with the module
\* magic, written in the container layout (magic, 4-byte version, 4-byte
\* metadata length, metadata, payload), loads to the same payload, name and
\* description.
C10_RoundTripLengthPrefixed ==
    (loaded # <<"pending">> /\ wapp_in.layout = "length-prefixed") =>
        loaded = Ok(wapp_in.payload, wapp_in.name, wapp_in.description)

\* C10, amended: written in the layout the loader reads (magic, version byte,
\* name NUL, description NUL, payload), every carriable record and payload
\* loads to the same payload, name and description.
C10_RoundTrip ==
    (loaded # <<"pending">> /\ wapp_in.layout = "wapp" /\ Carriable(wapp_in)) =>
        loaded = Ok(wapp_in.payload, wapp_in.name, wapp_in.description)

\* the longest name and description, a multi-byte character aside, came back
C10_Witness ==
    /\ wapp_in.layout = "wapp"
    /\ Len(wapp_in.name) = NAME_MAX_LEN - 1
    /\ Len(wapp_in.description) = DESCRIPTION_MAX_LEN - 1
    /\ Len(wapp_in.payload) > 8
    /\ loaded = Ok(wapp_in.payload, wapp_in.name, wapp_in.description)

\* C11 as stated: a file shorter than the 12-byte fixed header fails as
\* truncated without a panic, and a file of 12 bytes or more is never rejected
\* as truncated.
C11_TruncatedHeaderAt12 ==
    loaded # <<"pending">> =>
        /\ loaded # Panic
        /\ loaded = Err("too small") <=> Len(file_bytes) < FIXED_HEADER_SIZE

\* C11, amended: a file shorter than 15 bytes (magic, version byte, two
\* terminators, 8 bytes of module) fails as too small without a panic, and a
\* file of 15 bytes or more is never rejected as too small.
C11_TooSmallBelowMinSize ==
    loaded # <<"pending">> =>
        /\ loaded # Panic
        /\ loaded = Err("too small") <=> Len(file_bytes) < 15

\* a file of the magic and nothing else was rejected as too small
C11_Witness ==
    /\ file_bytes = WAPP_MAGIC
    /\ loaded = Err("too small")

\* the failures of the name and description fields
MetadataFailures == {Err("app name"), Err("app description")}

\* the NUL bytes of a file after its magic and version byte
NulsAfterHeader == {i \in 6..Len(file_bytes) : file_bytes[i] = 0}

\* C12 as stated: with valid magic and 4-byte version, a metadata length N at
\* offset 8 with 12 + N past the end of the file fails as truncated metadata;
\* otherwise a payload returned is the bytes from offset 12 + N on.
C12_MetadataLengthDecides ==
    (/\ loaded # <<"pending">>
     /\ Len(file_bytes) >= FIXED_HEADER_SIZE
     /\ SubSeq(file_bytes, 1, 4) = WAPP_MAGIC
     /\ SubSeq(file_bytes, 5, 8) = LE32(WAPP_VERSION)) =>
        LET N == FromLE32(file_bytes, 8)
        IN  IF FIXED_HEADER_SIZE + N > Len(file_bytes)
            THEN loaded \in MetadataFailures
            ELSE loaded[1] = "ok" =>
                    loaded[2] = SubSeq(file_bytes, FIXED_HEADER_SIZE + N + 1, Len(file_bytes))

\* C12, amended: in a file of 15 bytes or more with valid magic and version
\* byte, a name without terminator in the 256 bytes from offset 5, or a
\* description without terminator in the 1024 bytes after the name's, fails as
\* a metadata failure; otherwise a payload returned is the bytes after the
\* description's terminator.
C12_TerminatorsDecide ==
    (/\ loaded # <<"pending">>
     /\ Len(file_bytes) >= 15
     /\ SubSeq(file_bytes, 1, 4) = WAPP_MAGIC
     /\ file_bytes[5] = 1) =>
        IF \A i \in NulsAfterHeader : i > 5 + 256
        THEN loaded \in MetadataFailures
        ELSE LET p1 == CHOOSE i \in NulsAfterHeader : \A j \in NulsAfterHeader : i <= j
                 rest == {i \in NulsAfterHeader : i > p1}
             IN  IF \A i \in rest : i > p1 + 1024
                 THEN loaded \in MetadataFailures
                 ELSE LET p2 == CHOOSE i \in rest : \A j \in rest : i <= j
                      IN  loaded[1] = "ok" =>
                             loaded[2] = SubSeq(file_bytes, p2 + 1, Len(file_bytes))

\* a file that ends inside its name was rejected for its metadata
C12_Witness ==
    /\ wapp_in.layout = "raw"
    /\ Len(file_bytes) >= 15
    /\ SubSeq(file_bytes, 1, 4) = WAPP_MAGIC
    /\ file_bytes[5] = 1
    /\ NulsAfterHeader = {}
    /\ loaded = Err("app name")

C14_PayloadBeginsWithMagic ==
    loaded[1] = "ok" =>
        /\ Len(loaded[2]) >= Len(WASM_MAGIC)
        /\ SubSeq(loaded[2], 1, Len(WASM_MAGIC)) = WASM_MAGIC

\* metadata blocks that omit both fields: {} and {"x":1}
SparseBlocks == {<<123, 125>>, <<123, 34, 120, 34, 58, 49, 125>>}

\* C15 as stated: a container whose metadata block omits the name and the
\* description, or holds an unknown key, loads with both fields empty.
C15_MissingFieldsDefault ==
    \A meta \in SparseBlocks, p \in RawPayloads :
        (/\ loaded # <<"pending">>
         /\ Len(p) >= 8 /\ SubSeq(p, 1, 4) = WASM_MAGIC
         /\ file_bytes = write_metadata_block(meta, p)) =>
            loaded = Ok(p, <<>>, <<>>)

\* C15, amended: a container whose name field or description field is empty
\* (its terminator alone), with a payload of 8 bytes or more that begins with
\* the module magic, loads with that field the empty string.
C15_EmptyFieldsLoad ==
    (/\ loaded # <<"pending">>
     /\ wapp_in.layout = "wapp"
     /\ Carriable(wapp_in)
     /\ wapp_in.name = <<>> \/ wapp_in.description = <<>>) =>
        /\ loaded[1] = "ok"
        /\ wapp_in.name = <<>> => loaded[3] = <<>>
        /\ wapp_in.description = <<>> => loaded[4] = <<>>

\* the 15-byte file with both fields empty was loaded
C15_Witness ==
    /\ wapp_in.layout = "wapp"
    /\ wapp_in.name = <<>>
    /\ wapp_in.description = <<>>
    /\ Len(file_bytes) = 15
    /\ loaded = Ok(wapp_in.payload, <<>>, <<>>)

\* a written name and description without a NUL inside, and a payload of a
\* module's magic and version or more
Terminated(in) ==
    /\ \A i \in 1..Len(in.name) : in.name[i] # 0
    /\ \A i \in 1..Len(in.description) : in.description[i] # 0
    /\ Len(in.payload) >= 8
    /\ SubSeq(in.payload, 1, 4) = WASM_MAGIC

\* C24 as stated: a name of up to 256 bytes and a description of up to 1024
\* bytes, each followed by its terminator, are accepted, and a longer name or
\* description is rejected.
C24_AcceptsUpToMaximum ==
    (loaded # <<"pending">> /\ wapp_in.layout = "wapp" /\ Terminated(wapp_in)) =>
        (loaded[1] = "ok" <=>
            Len(wapp_in.name) <= 256 /\ Len(wapp_in.description) <= 1024)

\* C24, amended: a name of up to 255 bytes and a description of up to 1023
\* bytes (256 and 1024 with the terminator) are accepted, a longer name or
\* description is rejected, and so is a file whose name has no terminator.
C24_AcceptsBelowMaximum ==
    loaded # <<"pending">> =>
        /\ (wapp_in.layout = "wapp" /\ Terminated(wapp_in)) =>
              (loaded[1] = "ok" <=>
                  Len(wapp_in.name) <= 255 /\ Len(wapp_in.description) <= 1023)
        /\ (/\ wapp_in.layout = "raw"
            /\ Len(file_bytes) >= 15
            /\ SubSeq(file_bytes, 1, 4) = WAPP_MAGIC
            /\ file_bytes[5] = 1
            /\ Cardinality(NulsAfterHeader) < 2) => loaded \in MetadataFailures

\* a name of 256 bytes before its terminator was rejected
C24_Witness ==
    /\ wapp_in.layout = "wapp"
    /\ Len(wapp_in.name) = 256
    /\ Len(wapp_in.description) = 1023
    /\ Terminated(wapp_in)
    /\ loaded = Err("app name")

\* C27: for every file content load_wapp returns a payload and metadata or an
\* error, and never indexes outside the data, also when the terminator of the
\* name or of the description is the last byte of the file.
C27_LoaderIsTotal ==
    loaded # <<"pending">> =>
        /\ loaded # Panic
        /\ loaded[1] \in {"ok", "err"}
        /\ loaded[1] = "ok" => Len(loaded[2]) <= Len(file_bytes) - 7

\* the name's terminator was the last byte of the file: an error, not a panic
C27_Witness ==
    /\ Len(file_bytes) = 15
    /\ SubSeq(file_bytes, 1, 5) = WAPP_MAGIC \o <<WAPP_VERSION>>
    /\ NulsAfterHeader = {15}
    /\ loaded = Err("app description")

----------------------------------------------------------------------------
(* Properties of the sandbox and of the driving loop *)

\* C16 as stated, for the modules without a start function: construction
\* succeeds for a module that exports a memory and `update` of the right
\* signature and no other entry point, and fails for the missing required
\* export for every module in which `update` is absent or of another
\* signature, whatever else the module exports.
C16_UpdateDecides ==
    (last.op = "new" /\ module.valid /\ module.start = "none") =>
        /\ (/\ module.memory = "memory"
            /\ module.exports["update"] = "ok"
            /\ \A e \in OptionalEntryPoints : module.exports[e] = "absent") =>
              last.result = <<"ok">>
        /\ module.exports["update"] # "ok" =>
              last.result = Err("Guest must export 'update(dt: f64)' function")

\* C16, amended: the same, for the modules that compile, whose instantiation
\* completes and that export a linear memory as "memory".
C16_UpdateDecidesOnceMemory ==
    (/\ last.op = "new"
     /\ module.valid
     /\ last.instantiate = "ok"
     /\ module.memory = "memory") =>
        /\ (/\ module.exports["update"] = "ok"
            /\ \A e \in OptionalEntryPoints : module.exports[e] = "absent") =>
              last.result = <<"ok">> /\ dpc = "events"
        /\ module.exports["update"] # "ok" =>
              /\ last.result = Err("Guest must export 'update(dt: f64)' function")
              /\ dpc \in {"failed", "exited"}

\* a module with a memory, every optional entry point and an `update` of
\* another signature was refused for its missing `update`
C16_Witness ==
    /\ last.op = "new"
    /\ module.memory = "memory"
    /\ module.exports["update"] = "mismatch"
    /\ module.exports["on_resize"] = "ok"
    /\ last.result = Err("Guest must export 'update(dt: f64)' function")
    /\ dpc = "failed"

\* C17: for a module that exports no linear memory, construction ends in the
\* missing-memory failure and not in a panic of the host, also when its start
\* function calls update_frame; no call_* operation is issued to it.
C17_MissingMemoryIsClassified ==
    (module.valid /\ module.memory # "memory" /\ module.start # "trap") =>
        /\ last.op = "new" => last.result = Err("Guest must export 'memory'")
        /\ dpc \in {"new", "failed", "exited"}
        /\ exit_status \in {None, <<"exit", 1>>}

\* C18: for each optional entry point that was not resolved at instantiation
\* (absent, or of another signature), the call_* operation returns success
\* without invoking the guest and leaves the sandbox and the buffer unchanged.
C18_UnresolvedIsNoOp ==
    [][\A e \in OptionalEntryPoints :
          (D_Event(e) /\ module.exports[e] # "ok") =>
             /\ last'.invoked = FALSE
             /\ dpc' = "events"
             /\ UNCHANGED <<pc, entry, op, mem, host, resolved, run_result, exit_status>>]_vars

\* call_on_key_down returned without a call for an export of another signature
C18_Witness ==
    /\ last.op = "call"
    /\ last.entry = "on_key_down"
    /\ module.exports["on_key_down"] = "mismatch"
    /\ last.invoked = FALSE
    /\ pc = "host"
    /\ dpc = "events"

\* C19: when a resolved entry point traps during call_update or call_on_*,
\* the operation returns an error to its caller, the host goes on, and the
\* error names the entry point that was running.
C19_TrapNamesEntryPoint ==
    (last.op = "return" /\ last.result = "err") =>
        /\ pc = "host"
        /\ last.context = last.entry

\* a trap in on_key_down came back as an error naming on_key_down
C19_Witness ==
    /\ last.op = "return"
    /\ last.result = "err"
    /\ last.entry = "on_key_down"
    /\ last.context = "on_key_down"
    /\ pc = "host"

\* C20: once a call_update or call_on_* operation has returned an error, the
\* loop issues no further guest call and takes no further frame: the one step
\* left is the end of the process, with exit status 1.
C20_GuestErrorIsFatal ==
    [][/\ dpc # "exited"
       /\ (last.op = "return" /\ last.result = "err") =>
             /\ dpc' = "exited"
             /\ exit_status' = <<"exit", 1>>
             /\ UNCHANGED <<pc, entry, op, host, last>>]_vars

\* a trap in update ended the process with status 1
C20_Witness ==
    /\ last.op = "return"
    /\ last.result = "err"
    /\ last.entry = "update"
    /\ run_result = Err("update")
    /\ dpc = "exited"
    /\ exit_status = <<"exit", 1>>

\* C25: a pointer-down or pointer-up event reaches the guest with button code
\* 1 for the left button, 2 for the middle button, 3 for the right button and
\* 0 for every other button, the same for both kinds of event.
C25_ButtonCodes ==
    (last.op = "call" /\ last.entry \in {"on_pointer_down", "on_pointer_up"}) =>
        /\ last.event.mouse_btn \in MouseButtons
        /\ last.event.mouse_btn = "Left" => last.args = <<1>>
        /\ last.event.mouse_btn = "Middle" => last.args = <<2>>
        /\ last.event.mouse_btn = "Right" => last.args = <<3>>
        /\ last.event.mouse_btn \notin {"Left", "Middle", "Right"} => last.args = <<0>>

\* the guest's on_pointer_down was called for an extra button with code 0
C25_Witness ==
    /\ last.op = "call"
    /\ last.entry = "on_pointer_down"
    /\ last.invoked
    /\ last.event.mouse_btn = "X2"
    /\ last.args = <<0>>
    /\ pc = "guest"

\* C21: a guest call does not run beyond the budget set on the store: by then
\* it has been interrupted and the call has returned to the driving loop.
C21_BudgetInterrupts ==
    pc = "guest" => ticks <= EPOCH_DEADLINE

\* the events of a batch for which run_app calls the guest
Dispatchable(events) == SelectSeq(events, LAMBDA ev : ev.kind \in OptionalEntryPoints)

\* C22: in every iteration of the driving loop the events of the batch are
\* dispatched in the order they were delivered, then call_update is invoked
\* once, then the frame is taken once, before the next iteration's update.
C22_IterationOrder ==
    /\ iter.updates <= 1
    /\ iter.takes <= iter.updates
    /\ (dpc \in {"events", "event_call"} /\ batch.polled) =>
          /\ iter.dispatched \o Dispatchable(batch.events) = Dispatchable(iter.delivered)
          /\ iter.updates = 0
    /\ dpc \in {"update_call", "frame"} =>
          /\ iter.dispatched = Dispatchable(iter.delivered)
          /\ iter.updates = 1
          /\ iter.takes = 0
    /\ (dpc = "events" /\ ~batch.polled /\ last.op = "take") =>
          /\ iter.dispatched = Dispatchable(iter.delivered)
          /\ iter.updates = 1
          /\ iter.takes = 1

\* an iteration dispatched its two events, updated once and took a frame once
C22_Witness ==
    /\ dpc = "events"
    /\ ~batch.polled
    /\ last.op = "take"
    /\ last.res[1] = "some"
    /\ iter.delivered = <<Event("on_key_down"), Event("on_resize")>>
    /\ iter.dispatched = iter.delivered
    /\ iter.updates = 1
    /\ iter.takes = 1

\* the events of a batch that precede its first Event::Quit
RECURSIVE BeforeQuit(_)
BeforeQuit(events) ==
    IF events = <<>> \/ Head(events).kind = "quit" THEN <<>>
    ELSE <<Head(events)>> \o BeforeQuit(Tail(events))

\* C28: when the loop meets a Quit event it stops at once: the events before
\* it in the batch have been dispatched, those after it never are, neither
\* call_update nor the take is invoked again, and run_app returns success.
C28_QuitStopsAtOnce ==
    [][/\ (last.op # "quit" /\ last'.op = "quit") =>
             /\ iter'.dispatched = Dispatchable(BeforeQuit(iter'.delivered))
             /\ iter'.updates = 0
             /\ iter'.takes = 0
             /\ dpc' = "returned"
             /\ run_result' = <<"ok">>
       /\ last.op = "quit" =>
             /\ dpc = "returned"
             /\ dpc' = "exited"
             /\ exit_status' = <<"exit", 0>>
             /\ UNCHANGED <<pc, entry, op, host, last, iter, batch, run_result>>]_vars

\* the loop returned at a Quit that had one event before it and one after it
C28_Witness ==
    /\ last.op = "quit"
    /\ iter.delivered = <<Event("on_resize"), Event("quit"), Event("on_key_down")>>
    /\ iter.dispatched = <<Event("on_resize")>>
    /\ batch.events = <<Event("on_key_down")>>
    /\ iter.updates = 0
    /\ run_result = <<"ok">>
    /\ dpc = "exited"
    /\ exit_status = <<"exit", 0>>

\* C23: once the runtime is constructed the system interface grants the
\* guest standard output, standard error, clock and random and nothing else,
\* wapps::update_frame is the one function defined for import outside the
\* system interface, and nothing the guest does changes either.
C23_AuthorityIsFixed ==
    dpc \notin {"idle", "new"} =>
        /\ wasi = {"stdout", "stderr", "clock", "random"}
        /\ wasi \cap {"filesystem", "network", "env"} = {}
        /\ {f \in linker : f[1] # "wasi_snapshot_preview1"} = {<<"wapps", "update_frame">>}
        /\ last.op = "wasi" =>
              (last.granted <=> last.capability \in {"stdout", "stderr", "clock", "random"})

\* the guest's update asked for the filesystem and was refused
C23_Witness ==
    /\ pc = "guest"
    /\ entry = "update"
    /\ last.op = "wasi"
    /\ last.capability = "filesystem"
    /\ ~last.granted
    /\ host.frame_dirty

====
